---------------------------- MODULE Spec2Model ----------------------------
(***************************************************************************)
(* Verification model of camaptools/Dataset.py (feghalya/CAMAP).           *)
(*                                                                         *)
(* The pipeline stages are modelled as separate specifications over one    *)
(* set of variables; each specification leaves the variables of the other  *)
(* stages at their initial value:                                          *)
(*   SpecLoad      Dataset.load_peptides_options / load_peptides           *)
(*   SpecSplit     TrainingDataset.split_dataset on explicit key lists     *)
(*   SpecPlain     TrainingDataset.split_dataset, plain mode, list sizes   *)
(*   SpecEncode    TrainingDataset.encode_peptides                         *)
(*   SpecOrganize  RegressionDataset._organize_data                        *)
(*   SpecNormalize RegressionDataset._split_and_normalize_df, called twice *)
(*                 with the same arguments                                 *)
(*   SpecClear     Dataset.clear_unused / RegressionDataset.clear_unused   *)
(***************************************************************************)
EXTENDS Integers, Sequences, FiniteSets, TLC

VARIABLES
    stage,          \* which pipeline stage this behaviour exercises
    pc,             \* position of the main process inside the stage
    err,            \* "none" or the name of the exception that aborted the stage
    \* ---- Dataset (loader) ----
    pepfiles,       \* self.pepfiles: the shard files in os.listdir order
    shards,         \* [shard file -> the pickled dict pdct: peptide -> pinfo]
    opt,            \* the attributes set by load_peptides_options
    options_args,   \* the arguments of the last load_peptides_options call, <<>> before it
    attrs,          \* names of the attributes present on the object (hasattr / del)
    peptides,       \* <<pepdict_nonsource, pepdict_source>>
    peptr,          \* load_peptides' local peptr: peptide -> set of transcript ids
    pepexpr,        \* (peptide, context index) -> <<expression values, transcript ids>>
    pepbs,          \* peptide -> binding score
    source_transcripts,
    \* ---- TrainingDataset.split_dataset ----
    peplist_nonsource,  \* list(self.peptides[0].keys())
    peplist_source,     \* list(self.peptides[1].keys())
    ratio,              \* the ratio argument; 0 stands for None
    seed,               \* the seed argument
    same_tpm,
    same_bs,
    ns_exp,             \* rescaled value of each nonsource key, in half units (2 * value)
    s_exp,              \* rescaled value of each source key, in half units
    new_weights,        \* per-bin sampling weight <<numerator, denominator>>
    ns_weights,         \* per-item sampling weight <<numerator, denominator>>
    keep,               \* the nonsource keys kept
    dct_pep,            \* [bucket -> list of keys]
    \* ---- split_dataset, plain mode, on list sizes ----
    sizes_in,           \* <<len(peplist_source), len(peplist_nonsource), ratio>>
    sizes_out,          \* [keep, nonsource, source]: kept count and <<train, test, validation>> sizes
    \* ---- TrainingDataset.encode_peptides ----
    n_pep,          \* [bucket -> len(self.dct_pep[ds][i])]; the bucket is the key list <<1, ..., n>>
    toggles,        \* [codon, shuffle, aa -> BOOLEAN] arguments of encode_peptides
    base_seed,      \* the seed argument of encode_peptides
    futures,        \* the dict futures: set of submitted chunk units
    yielded,        \* futures already produced by as_completed
    meta_dct,       \* [bucket -> list of runs]
    enc_dct,        \* [bucket -> list of runs]
    shuff_enc_dct,  \* [bucket -> list of runs]
    aa_enc_dct,     \* [bucket -> list of runs]
    \* ---- RegressionDataset._organize_data ----
    df_dictionnaries,   \* self.df_dictionnaries: <<nonsource tables, source tables>>
    \* ---- RegressionDataset._split_and_normalize_df ----
    df,             \* the rows' (Peptide, Class) index of the table argument
    df_seed,        \* the seed argument
    ix_train,       \* the ix_train argument
    ix_test,        \* the ix_test argument
    datasets,       \* the outcome of each call so far: [err, train, test]
    \* ---- clear_unused ----
    klass           \* the class of the object clear_unused is called on

encVars == <<n_pep, toggles, base_seed, futures, yielded, meta_dct, enc_dct, shuff_enc_dct, aa_enc_dct>>

loadVars == <<pepfiles, shards, opt, options_args, attrs, peptides, peptr, pepexpr, pepbs,
              source_transcripts>>

splitVars == <<peplist_nonsource, peplist_source, ratio, seed, same_tpm, same_bs, ns_exp, s_exp,
               new_weights, ns_weights, keep, dct_pep>>

plainVars == <<sizes_in, sizes_out>>

orgVars == <<df_dictionnaries>>

normVars == <<df, df_seed, ix_train, ix_test, datasets>>

clearVars == <<klass>>

vars == <<stage, pc, err, loadVars, splitVars, plainVars, encVars, orgVars, normVars, clearVars>>

\* the variables a stage leaves alone
notLoad == <<splitVars, plainVars, encVars, orgVars, normVars, clearVars>>

notSplit == <<loadVars, plainVars, encVars, orgVars, normVars, clearVars>>

notPlain == <<loadVars, splitVars, encVars, orgVars, normVars, clearVars>>

notEncode == <<loadVars, splitVars, plainVars, orgVars, normVars, clearVars>>

notOrganize == <<splitVars, plainVars, encVars, normVars, clearVars>>

notNormalize == <<loadVars, splitVars, plainVars, encVars, orgVars, clearVars>>

\* the variables of the stages a behaviour does not exercise stay at these values
IdleLoad ==
    /\ pepfiles = <<>> /\ shards = <<>> /\ opt = <<>> /\ options_args = <<>> /\ attrs = {}
    /\ peptides = <<>> /\ peptr = <<>> /\ pepexpr = <<>> /\ pepbs = <<>>
    /\ source_transcripts = {}

IdleEncode ==
    /\ n_pep = <<>> /\ toggles = <<>> /\ base_seed = 0 /\ futures = {} /\ yielded = {}
    /\ meta_dct = <<>> /\ enc_dct = <<>> /\ shuff_enc_dct = <<>> /\ aa_enc_dct = <<>>

IdleSplit ==
    /\ peplist_nonsource = <<>> /\ peplist_source = <<>> /\ ratio = 0 /\ seed = 0
    /\ same_tpm = FALSE /\ same_bs = FALSE /\ ns_exp = <<>> /\ s_exp = <<>>
    /\ new_weights = <<>> /\ ns_weights = <<>> /\ keep = <<>> /\ dct_pep = <<>>

IdlePlain == sizes_in = <<>> /\ sizes_out = <<>>

IdleOrganize == df_dictionnaries = <<>>

IdleNormalize ==
    df = <<>> /\ df_seed = 0 /\ ix_train = <<>> /\ ix_test = <<>> /\ datasets = <<>>

notClear == <<splitVars, plainVars, encVars, orgVars, normVars>>

IdleClear == klass = ""

\* _organize_data reads the attributes load_peptides stores, clear_unused deletes them
IdleExcept(s) ==
    /\ IF s \in {"load", "organize", "clear"} THEN TRUE ELSE IdleLoad
    /\ IF s = "clear" THEN TRUE ELSE IdleClear
    /\ IF s = "organize" THEN TRUE ELSE IdleOrganize
    /\ IF s = "normalize" THEN TRUE ELSE IdleNormalize
    /\ IF s = "split" THEN TRUE ELSE IdleSplit
    /\ IF s = "plain" THEN TRUE ELSE IdlePlain
    /\ IF s = "encode" THEN TRUE ELSE IdleEncode

----------------------------------------------------------------------------
(* Arithmetic helpers                                                      *)

Min(a, b) == IF a <= b THEN a ELSE b

Max(a, b) == IF a >= b THEN a ELSE b

\* ceil(p / q) for p >= 0, q > 0
CeilDiv(p, q) == (p + q - 1) \div q

RECURSIVE SumSeq(_)
SumSeq(s) == IF s = <<>> THEN 0 ELSE Head(s) + SumSeq(Tail(s))

----------------------------------------------------------------------------
(* sklearn.model_selection.train_test_split sizes: for a float test_size   *)
(* n_test = ceil(test_size * n) and n_train = n - n_test.  For the         *)
(* literals 0.4, 0.5 and 0.3 the double product rounds to the exact        *)
(* ceiling for every n the model uses.                                     *)

\* test_size=0.4 (lines 306, 314)
NPreTest(n) == CeilDiv(2 * n, 5)

\* test_size=0.5 (lines 307, 315)
NHalfTest(m) == CeilDiv(m, 2)

\* the sizes <<train, test, validation>> of the two-stage split of n keys
SplitSizes(n) ==
    LET pre == NPreTest(n)
    IN  <<n - pre, NHalfTest(pre), pre - NHalfTest(pre)>>

\* train_test_split raises ValueError when a side would be empty
SplitOk(n) == SplitSizes(n)[1] >= 1 /\ SplitSizes(n)[3] >= 1

----------------------------------------------------------------------------
(* Python dict and list helpers                                            *)

EmptyDict == <<>>

\* d.update(e): the entries of e replace those of d with the same key
DictUpdate(d, e) ==
    [k \in (DOMAIN d) \cup (DOMAIN e) |-> IF k \in DOMAIN e THEN e[k] ELSE d[k]]

\* del d[k] for every k in ks
DictDel(d, ks) == [k \in (DOMAIN d) \ ks |-> d[k]]

Range(s) == {s[i] : i \in DOMAIN s}

\* all orderings of a finite set
Perms(S) == {q \in [1..Cardinality(S) -> S] : \A x \in S : \E i \in DOMAIN q : q[i] = x}

----------------------------------------------------------------------------
(* Dataset: constructor inputs                                             *)

\* bound: number of shard files found in out_dir
NumShards == 2

ShardIds == 1..NumShards

\* self.alleles: the accepted alleles of the cell line
alleles == {"A1"}

\* self.detected_peptides
detected_peptides == {"Q"}

\* self.tpm_dct: transcript id -> TPM; "tx" is a transcript without expression
tpm_dct == [t \in {"t1", "t2"} |-> IF t = "t1" THEN 2 ELSE 8]

Score(nm, rk) == [nM |-> nm, Rank |-> rk, Rank_NP |-> rk]

GCont(trs, gap) == [transcriptID |-> trs, gap |-> gap]

\* pinfo records a shard may hold; netmhcpan = <<>> stands for a missing 'netmhcpan' key
PInfo(mhc, genes) == [netmhcpan |-> mhc, genes |-> genes]

MhcGood == [al \in {"A1", "A2"} |-> IF al = "A1" THEN Score(500, 1) ELSE Score(3000, 9)]

MhcWeak == [al \in {"A1", "A2"} |-> IF al = "A1" THEN Score(2000, 5) ELSE Score(100, 1)]

\* only a non-accepted allele was scored
MhcOther == [al \in {"A2"} |-> Score(100, 1)]

PInfosNonsource ==
    { PInfo(<<>>, <<GCont(<<"t1">>, FALSE)>>),
      PInfo(MhcOther, <<GCont(<<"t1">>, FALSE)>>),
      PInfo(MhcGood, <<GCont(<<"t1">>, FALSE)>>),
      PInfo(MhcGood, <<GCont(<<"t2">>, FALSE)>>),
      PInfo(MhcGood, <<GCont(<<"t1">>, FALSE), GCont(<<"tx", "t2">>, FALSE)>>),
      PInfo(MhcGood, <<GCont(<<"tx">>, FALSE), GCont(<<"t1">>, TRUE)>>),
      PInfo(MhcWeak, <<GCont(<<"t1">>, FALSE)>>) }

PInfosSource ==
    { PInfo(MhcGood, <<GCont(<<"t1">>, FALSE)>>),
      PInfo(MhcGood, <<GCont(<<"t2">>, FALSE)>>),
      PInfo(MhcGood, <<GCont(<<"t2">>, TRUE)>>) }

Peps == {"P", "Q"}

\* the pickled dicts a shard file may hold: every subset of the peptides, each with a pinfo
ShardDicts ==
    UNION { { d \in [S -> PInfosNonsource \cup PInfosSource] :
                \A pep \in S : d[pep] \in (IF pep \in detected_peptides
                                           THEN PInfosSource ELSE PInfosNonsource) } :
            S \in SUBSET Peps }

\* 'U' in pep
HasU(pep) == pep \in {"U"}

----------------------------------------------------------------------------
(* Dataset.load_peptides_options                                           *)

NoOptions == [set |-> FALSE]

\* lines 96-111; max_contexts = 0 stands for None (np.inf)
LoadPeptidesOptions(max_bs_or_rank, v, max_contexts, step) ==
    LET var1 == IF max_bs_or_rank < 100 /\ v /= "Rank" /\ v /= "Rank_NP" THEN "Rank"
                ELSE IF max_bs_or_rank >= 100 /\ v /= "nM" THEN "nM"
                ELSE v
        failed == ~(max_bs_or_rank < 100 /\ v /= "Rank" /\ v /= "Rank_NP")
                  /\ ~(max_bs_or_rank >= 100 /\ v /= "nM")
                  /\ v \notin {"nM", "Rank", "Rank_NP"}
    IN  [set |-> ~failed, failed |-> failed, max_bs_or_rank |-> max_bs_or_rank,
         var |-> var1, max_contexts |-> max_contexts, step |-> step]

DefaultOptions == LoadPeptidesOptions(1250, "nM", 3, "createDS")

----------------------------------------------------------------------------
(* Dataset._load_peptides: one shard                                       *)

\* line 182: the scores of the accepted alleles
AcceptedScores(pinfo, o) ==
    {pinfo.netmhcpan[al][o.var] : al \in (DOMAIN pinfo.netmhcpan) \cap alleles}

SetMin(S) == CHOOSE x \in S : \A y \in S : x <= y

\* line 183
BsOrRank(pinfo, o) == SetMin(AcceptedScores(pinfo, o))

\* line 184
Accepted(pinfo, o) == BsOrRank(pinfo, o) < o.max_bs_or_rank

\* line 190: tr = [t for t in g_cont['transcriptID'] if t in self.tpm_dct]
ExprTr(g_cont) == SelectSeq(g_cont.transcriptID, LAMBDA t : t \in DOMAIN tpm_dct)

\* lines 188-193: the contexts with an expressed transcript, in order
Contexts(pinfo) == SelectSeq(pinfo.genes, LAMBDA g : ExprTr(g) /= <<>>)

\* line 194: tr_set
TrSet(pinfo) == UNION {Range(ExprTr(g)) : g \in Range(Contexts(pinfo))}

\* the peptides of a shard that raise: KeyError (line 178) or ValueError (min of no score)
RaisesKeyError(pdct) == {pep \in DOMAIN pdct : pdct[pep].netmhcpan = <<>> /\ ~HasU(pep)}

RaisesValueError(pdct, o) ==
    {pep \in DOMAIN pdct : pdct[pep].netmhcpan /= <<>> /\ AcceptedScores(pdct[pep], o) = {}}

\* the peptides that pass line 184
Passing(pdct, o) ==
    {pep \in DOMAIN pdct : pdct[pep].netmhcpan /= <<>> /\ Accepted(pdct[pep], o)}

\* the peptides that pass line 201
Kept(pdct, o) ==
    {pep \in Passing(pdct, o) :
        LET n == Len(Contexts(pdct[pep]))
        IN  n >= 1 /\ (o.max_contexts = 0 \/ n <= o.max_contexts)}

\* line 203; the nM transform 1 - ln(x)/ln(50000) is kept symbolic
BindingScore(pinfo, o) ==
    IF o.var = "nM" THEN <<"1-ln/ln50000", BsOrRank(pinfo, o)>> ELSE <<"raw", BsOrRank(pinfo, o)>>

\* the keys (pep, i) written at lines 207-213: kept peptides, contexts without gap marker
EntryKeys(pdct, o, cls) ==
    {<<pep, i>> \in Kept(pdct, o) \X (0..3) :
        /\ (pep \in detected_peptides) = (cls = 1)
        /\ i < Len(Contexts(pdct[pep]))
        /\ ~Contexts(pdct[pep])[i + 1].gap}

Expr(g_cont) == [j \in DOMAIN ExprTr(g_cont) |-> tpm_dct[ExprTr(g_cont)[j]]]

\* lines 209-213 (step == 'createDS')
Entry(pdct, o, k) ==
    LET g == Contexts(pdct[k[1]])[k[2] + 1]
    IN  [sequenceContext |-> g, expressedTranscripts |-> ExprTr(g),
         expressedTranscriptsExpression |-> Expr(g),
         bindingAffinity |-> BindingScore(pdct[k[1]], o), bindingAffinityMetric |-> o.var]

\* the tuple _load_peptides returns (line 224)
LoadShard(pdct, o) ==
    [ nonsource |-> [k \in EntryKeys(pdct, o, 0) |-> Entry(pdct, o, k)],
      source    |-> [k \in EntryKeys(pdct, o, 1) |-> Entry(pdct, o, k)],
      tr_is_source |-> [t \in DOMAIN tpm_dct |->
            \E pep \in Passing(pdct, o) : pep \in detected_peptides /\ t \in TrSet(pdct[pep])],
      peptr   |-> [pep \in Kept(pdct, o) |-> TrSet(pdct[pep])],
      pepexpr |-> [k \in EntryKeys(pdct, o, 0) \cup EntryKeys(pdct, o, 1) |->
            LET g == Contexts(pdct[k[1]])[k[2] + 1] IN <<Expr(g), ExprTr(g)>>],
      pepbs   |-> [pep \in Kept(pdct, o) |-> BindingScore(pdct[pep], o)] ]

----------------------------------------------------------------------------
(* Dataset.load_peptides                                                   *)

EmptyMerge ==
    [nonsource |-> EmptyDict, source |-> EmptyDict, peptr |-> EmptyDict,
     pepexpr |-> EmptyDict, pepbs |-> EmptyDict,
     tr_is_source |-> [t \in DOMAIN tpm_dct |-> FALSE]]

\* lines 133-139: one iteration of the merge loop
MergeOne(acc, out) ==
    [ nonsource |-> DictUpdate(acc.nonsource, out.nonsource),
      source    |-> DictUpdate(acc.source, out.source),
      peptr     |-> DictUpdate(acc.peptr, out.peptr),
      pepexpr   |-> DictUpdate(acc.pepexpr, out.pepexpr),
      pepbs     |-> DictUpdate(acc.pepbs, out.pepbs),
      tr_is_source |-> [t \in DOMAIN tpm_dct |-> acc.tr_is_source[t] \/ out.tr_is_source[t]] ]

RECURSIVE MergeAll(_, _, _)
\* lines 125-139: merge the shard results in the order of files
MergeAll(files, sh, o) ==
    IF files = <<>> THEN EmptyMerge
    ELSE MergeOne(MergeAll(SubSeq(files, 1, Len(files) - 1), sh, o),
                  LoadShard(sh[files[Len(files)]], o))

\* line 141
SourceTranscripts(m) == {t \in DOMAIN tpm_dct : m.tr_is_source[t]}

\* lines 144-150: the nonsource keys the filter deletes
Removed(nonsource, ptr, src) == {k \in DOMAIN nonsource : ptr[k[1]] \cap src /= {}}

InitLoad ==
    /\ stage = "load"
    /\ pc = "constructed"
    /\ err = "none"
    /\ IdleExcept("load")
    /\ pepfiles \in Perms(ShardIds)
    /\ shards \in [ShardIds -> ShardDicts]
    /\ opt = NoOptions
    /\ options_args = <<>>
    /\ attrs = {}
    /\ peptides = <<EmptyDict, EmptyDict>>
    /\ peptr = EmptyDict
    /\ pepexpr = EmptyDict
    /\ pepbs = EmptyDict
    /\ source_transcripts = {}

\* the option values callers pass to load_peptides_options
OptionInputs ==
    {<<1250, "nM", 3, "createDS">>, <<1250, "nM", 1, "createDS">>, <<500, "nM", 3, "createDS">>,
     <<50, "Rank", 3, "createDS">>, <<50, "nM", 3, "createDS">>, <<1250, "Rank_NP", 3, "createDS">>,
     <<1250, "IC50", 3, "createDS">>}

\* lines 86-111
DoLoadPeptidesOptions ==
    /\ stage = "load" /\ pc = "constructed"
    /\ \E a \in OptionInputs :
        LET o == LoadPeptidesOptions(a[1], a[2], a[3], a[4])
        IN  /\ opt' = o
            /\ options_args' = a
            /\ err' = IF o.failed THEN "AssertionError" ELSE "none"
            /\ pc' = IF o.failed THEN "aborted" ELSE pc
            /\ attrs' = attrs \cup {"max_bs_or_rank", "max_contexts", "step"}
                              \cup (IF o.failed THEN {} ELSE {"var"})
    /\ UNCHANGED <<stage, pepfiles, shards, peptides, peptr, pepexpr, pepbs, source_transcripts, notLoad>>

\* lines 114-141: default the options, run the shards, merge their results
LoadMerge ==
    /\ stage = "load" /\ pc = "constructed"
    /\ LET o == IF "var" \in attrs THEN opt ELSE DefaultOptions
           raising == \E f \in ShardIds :
                         RaisesKeyError(shards[f]) \cup RaisesValueError(shards[f], o) /= {}
           m == MergeAll(pepfiles, shards, o)
       IN  /\ opt' = o
           /\ options_args' = IF "var" \in attrs THEN options_args ELSE <<1250, "nM", 3, "createDS">>
           /\ attrs' = attrs \cup {"max_bs_or_rank", "max_contexts", "step", "var"}
           /\ IF raising
              THEN /\ \E f \in ShardIds :
                        \/ RaisesKeyError(shards[f]) /= {} /\ err' = "KeyError"
                        \/ RaisesValueError(shards[f], o) /= {} /\ err' = "ValueError"
                   /\ pc' = "aborted"
                   /\ UNCHANGED <<peptides, peptr, pepexpr, pepbs, source_transcripts>>
              ELSE /\ peptides' = <<m.nonsource, m.source>>
                   /\ peptr' = m.peptr
                   /\ pepexpr' = m.pepexpr
                   /\ pepbs' = m.pepbs
                   /\ source_transcripts' = SourceTranscripts(m)
                   /\ pc' = "merged"
                   /\ err' = "none"
    /\ UNCHANGED <<stage, pepfiles, shards, notLoad>>

\* lines 143-157: drop the nonsource entries of source transcripts, store the attributes
LoadFilter ==
    /\ stage = "load" /\ pc = "merged"
    /\ LET rem == Removed(peptides[1], peptr, source_transcripts)
       IN  /\ peptides' = <<DictDel(peptides[1], rem), peptides[2]>>
           /\ pepexpr' = DictDel(pepexpr, rem)
           /\ peptr' = DictDel(peptr, {k[1] : k \in rem})
    /\ attrs' = attrs \cup {"source_transcripts", "pepexpr", "pepbs", "peptides"}
    /\ pc' = "loaded"
    /\ UNCHANGED <<stage, err, pepfiles, shards, opt, options_args, pepbs, source_transcripts, notLoad>>

NextLoad == DoLoadPeptidesOptions \/ LoadMerge \/ LoadFilter

SpecLoad == InitLoad /\ [][NextLoad]_vars

CanonicalMerge == MergeAll([i \in ShardIds |-> i], shards, opt)

\* C10: the merged output of load_peptides is the same for every order of the
\* per-shard results, and a peptide's transcript-id set is the union of its
\* per-shard sets
C10_MergeOrderIndependent ==
    (stage = "load" /\ pc = "merged") =>
        /\ peptides = <<CanonicalMerge.nonsource, CanonicalMerge.source>>
        /\ peptr = CanonicalMerge.peptr
        /\ pepexpr = CanonicalMerge.pepexpr
        /\ pepbs = CanonicalMerge.pepbs
        /\ source_transcripts = SourceTranscripts(CanonicalMerge)
        /\ \A pep \in DOMAIN peptr :
              peptr[pep] = UNION {LoadShard(shards[f], opt).peptr[pep] :
                                     f \in {g \in ShardIds : pep \in DOMAIN LoadShard(shards[g], opt).peptr}}

\* the minimum score over the accepted alleles exceeds the threshold
Exceeds(pinfo, o) == BsOrRank(pinfo, o) > o.max_bs_or_rank

\* line 201
ContextsOk(pinfo, o) ==
    LET n == Len(Contexts(pinfo))
    IN  n >= 1 /\ (o.max_contexts = 0 \/ n <= o.max_contexts)

\* C11: a peptide with binding data is rejected exactly when its minimum score
\* over the accepted alleles exceeds max_bs_or_rank: a peptide of some shard
\* that does not exceed it (a minimum equal to the threshold included) and has
\* an admissible number of contexts gets a binding score, and no other does
C11_RejectedOnlyAboveThreshold ==
    (stage = "load" /\ pc = "merged") =>
        \A pep \in Peps :
            pep \in DOMAIN pepbs <=>
                \E f \in ShardIds :
                    /\ pep \in DOMAIN shards[f]
                    /\ shards[f][pep].netmhcpan /= <<>>
                    /\ ~Exceeds(shards[f][pep], opt)
                    /\ ContextsOk(shards[f][pep], opt)

\* the selector is none of the metrics, or the metric does not go with the
\* threshold (nM below 100, a rank from 100 on)
InvalidOptions(a) ==
    \/ a[2] \notin {"nM", "Rank", "Rank_NP"}
    \/ a[1] < 100 /\ a[2] = "nM"
    \/ a[1] >= 100 /\ a[2] \in {"Rank", "Rank_NP"}

\* C12: load_peptides_options fails on an invalid selector or an invalid
\* metric/threshold combination before any shard is processed, and when it
\* returns normally the stored var is the requested one, one of nM, Rank,
\* Rank_NP
C12_InvalidOptionsFatal ==
    (stage = "load" /\ options_args /= <<>>) =>
        /\ InvalidOptions(options_args) => (pc = "aborted" /\ err = "AssertionError")
        /\ "var" \in attrs =>
              (opt.var = options_args[2] /\ opt.var \in {"nM", "Rank", "Rank_NP"})

----------------------------------------------------------------------------
(* Double-precision arithmetic of the plain-mode cap (lines 292-298)       *)
(*                                                                         *)
(* ratio = P*ratio/N is a correctly rounded double q = m / 2^k, and        *)
(* train_test_split takes ceil(q * N), the product rounded to a double     *)
(* again.  With T = a * 2^k, m = round(T / N) and d = m*N - T, the product *)
(* is a + d / 2^k; it rounds to a double above a exactly when d exceeds    *)
(* half an ulp of a, and then the ceiling is a + 1.                        *)

RECURSIVE Pow2(_)
Pow2(e) == IF e = 0 THEN 1 ELSE 2 * Pow2(e - 1)

RECURSIVE PowMod2(_, _)
\* 2^k mod m
PowMod2(k, m) == IF k = 0 THEN 1 % m ELSE (2 * PowMod2(k - 1, m)) % m

RECURSIVE ILog2(_)
\* floor(log2(a)) for a >= 1
ILog2(a) == IF a < 2 THEN 0 ELSE 1 + ILog2(a \div 2)

RECURSIVE ShiftTo(_, _, _)
\* the least j' >= j with a * 2^j' >= n
ShiftTo(a, n, j) == IF a * Pow2(j) >= n THEN j ELSE ShiftTo(a, n, j + 1)

\* ceil((a / n) * n) in doubles, for 0 < a < n
FloatCeilRatioTimes(a, n) ==
    LET j   == ShiftTo(a, n, 1)
        R2  == (a * PowMod2(52 + j, 2 * n)) % (2 * n)
        r   == R2 % n
        odd == R2 \div n
        d   == IF 2 * r < n \/ (2 * r = n /\ odd = 0) THEN 0 - r ELSE n - r
    IN  IF d > Pow2(j + ILog2(a) - 1) THEN a + 1 ELSE a

\* lines 292-298: how many nonsource keys plain mode keeps; r = 0 stands for ratio None
PlainKeep(P, N, r) ==
    IF N = 0 THEN [err |-> "ZeroDivisionError", n |-> 0, all |-> FALSE]
    ELSE IF r = 0
    THEN (IF P = 0 THEN [err |-> "ValueError", n |-> 0, all |-> FALSE]
          ELSE [err |-> "none", n |-> N, all |-> TRUE])
    ELSE IF P * r >= N THEN [err |-> "none", n |-> N, all |-> TRUE]
    ELSE IF P * r = 0 THEN [err |-> "ValueError", n |-> 0, all |-> FALSE]
    ELSE LET nt == FloatCeilRatioTimes(P * r, N)
         IN  IF N - nt = 0 THEN [err |-> "ValueError", n |-> 0, all |-> FALSE]
             ELSE [err |-> "none", n |-> nt, all |-> FALSE]

----------------------------------------------------------------------------
(* TrainingDataset.split_dataset                                           *)

\* bound: the largest nonsource key list
MaxNonsource == 4

\* bound: the largest source key list
MaxSource == 3

\* iteration order of self.dct_pep: 'train', 'test', 'validation', each with i = 0, 1
DsNames == <<"train", "test", "validation">>

Buckets == {<<d, i>> : d \in 1..3, i \in 0..1}

\* the key of position k in the key list of class i
Key(i, k) == <<i, k>>

\* RandomState(sd).permutation(n): a fixed permutation of 1..n for each seed
Permutation(n, sd) == [i \in 1..n |-> ((n - i + sd) % n) + 1]

\* a split whose train side starts one position early
TrainTestSplitOverlap(lst, n_test, sd) ==
    LET perm == Permutation(Len(lst), sd)
    IN  [train |-> [i \in 1..(Len(lst) - n_test) |-> lst[perm[n_test + i - 1]]],
         test  |-> [i \in 1..n_test |-> lst[perm[i]]]]

\* train_test_split(lst, test_size, random_state=sd): the first n_test positions of
\* the permutation go to the test side, the rest to the train side
TrainTestSplit(lst, n_test, sd) ==
    LET perm == Permutation(Len(lst), sd)
    IN  [train |-> [i \in 1..(Len(lst) - n_test) |-> lst[perm[n_test + i]]],
         test  |-> [i \in 1..n_test |-> lst[perm[i]]]]

\* lines 306-307 / 314-315: the two-stage split of one class
ThreeWay(lst, sd) ==
    LET s1 == TrainTestSplit(lst, NPreTest(Len(lst)), sd)
        s2 == TrainTestSplit(s1.test, NHalfTest(Len(s1.test)), sd)
    IN  <<s1.train, s2.test, s2.train>>

\* lines 261-269
start == 0 - 10

end == 10

NegInf == 0 - 1000

PosInf == 1000

\* l = [-np.inf] + list(range(start, end)) + [np.inf]
EdgeList == <<NegInf>> \o [i \in 1..(end - start) |-> start + i - 1] \o <<PosInf>>

\* the loop stops at the IndexError: one bin per adjacent pair of l
bins == [x \in 1..(Len(EdgeList) - 1) |-> <<EdgeList[x], EdgeList[x + 1]>>]

\* numtoix, as a 1-based position in bins / weights
numtoix(c) == c - start + 1

\* math.ceil of a value held in half units
Ceil(v) == 0 - ((0 - v) \div 2)

\* (s_exp >= i) & (s_exp < j) for a value in half units
InBin(v, b) == 2 * b[1] <= v /\ v < 2 * b[2]

\* line 271: positive fraction per bin, as <<count, len(s_exp)>>
weights(sx) ==
    [k \in DOMAIN bins |-> <<Cardinality({i \in DOMAIN sx : InBin(sx[i], bins[k])}), Len(sx)>>]

\* the position in bins that getbin / getweight / getnewweight look up (lines 272-277)
LookupIx(v) == numtoix(Max(start, Min(Ceil(v), end)))

getbin(v) == bins[LookupIx(v)]

\* line 275: ns_norm, the count of nonsource values per bin that occurs
ns_norm(nx) ==
    [b \in {getbin(nx[i]) : i \in DOMAIN nx} |-> Cardinality({i \in DOMAIN nx : getbin(nx[i]) = b})]

\* line 276 raises KeyError when a bin with positives is no key of ns_norm
WeightKeyError(sx, nx) ==
    \E k \in DOMAIN bins : weights(sx)[k][1] /= 0 /\ bins[k] \notin DOMAIN ns_norm(nx)

\* line 276: w / ns_norm[b] if w else 0
NewWeights(sx, nx) ==
    [k \in DOMAIN bins |->
        IF weights(sx)[k][1] /= 0
        THEN <<weights(sx)[k][1], weights(sx)[k][2] * ns_norm(nx)[bins[k]]>>
        ELSE <<0, 1>>]

\* lines 277-278
NsWeights(nw, nx) == [i \in DOMAIN nx |-> nw[LookupIx(nx[i])]]

\* np.random.choice(r, size, False, p): the ordered samples without replacement
\* over the positions of non-zero probability
\* (none when fewer than size positions have non-zero probability: ValueError)
Choices(p, size) ==
    LET pos == {i \in DOMAIN p : p[i][1] /= 0}
    IN  IF size > Cardinality(pos) THEN {}
        ELSE {c \in [1..size -> pos] : \A i, j \in 1..size : i /= j => c[i] /= c[j]}

\* value catalogues, in half units: 0.5, 1, 9, 15 (1 and 9 are bin edges)
NegVals == {1, 2, 18, 30}

PosVals == {1, 18, 30}

\* value lists in non-decreasing order (keys are interchangeable labels)
SortedLists(vals, n) == {q \in [1..n -> vals] : \A i \in 1..(n - 1) : q[i] <= q[i + 1]}

EmptyBuckets == [b \in Buckets |-> <<>>]

InitSplit ==
    /\ stage = "split"
    /\ pc = "start"
    /\ err = "none"
    /\ IdleExcept("split")
    /\ \E n \in 0..MaxNonsource : peplist_nonsource = [k \in 1..n |-> Key(0, k)]
    /\ \E n \in 0..MaxSource : peplist_source = [k \in 1..n |-> Key(1, k)]
    /\ ratio \in {0, 1, 2}
    /\ seed \in {0, 1}
    /\ same_tpm \in BOOLEAN
    /\ same_bs \in BOOLEAN
    /\ IF (same_tpm \/ same_bs) /\ ~(same_tpm /\ same_bs) /\ ratio /= 0
       THEN /\ ns_exp \in SortedLists(NegVals, Len(peplist_nonsource))
            /\ s_exp \in SortedLists(PosVals, Len(peplist_source))
            \* same_bs rescales to [-15, 15]: the largest value is 15
            /\ same_bs => \E i \in DOMAIN (ns_exp \o s_exp) : (ns_exp \o s_exp)[i] = 30
       ELSE ns_exp = <<>> /\ s_exp = <<>>
    /\ new_weights = <<>>
    /\ ns_weights = <<>>
    /\ keep = <<>>
    /\ dct_pep = EmptyBuckets

\* the effect of an exception leaving split_dataset
SplitAbort(e) ==
    /\ err' = e
    /\ pc' = "aborted"
    /\ UNCHANGED <<keep, dct_pep>>

\* lines 300-317 for a kept list and the source list
SplitFinish(kp) ==
    IF ~SplitOk(Len(kp)) \/ ~SplitOk(Len(peplist_source))
    THEN /\ err' = "ValueError"
         /\ pc' = "aborted"
         /\ keep' = kp
         /\ UNCHANGED dct_pep
    ELSE /\ keep' = kp
         /\ dct_pep' = [b \in Buckets |->
                 IF b[2] = 0 THEN ThreeWay(kp, seed)[b[1]]
                 ELSE ThreeWay(peplist_source, seed)[b[1]]]
         /\ err' = "none"
         /\ pc' = "done"

\* lines 250-289: resampling mode
SplitResample ==
    IF same_bs /\ (Len(peplist_nonsource) = 0 \/ Len(peplist_source) = 0)
    THEN \* line 257: max() of an empty sequence
         /\ SplitAbort("ValueError")
         /\ UNCHANGED <<new_weights, ns_weights>>
    ELSE IF Len(peplist_source) = 0
    THEN \* line 271: division by len(s_exp)
         /\ SplitAbort("ZeroDivisionError")
         /\ UNCHANGED <<new_weights, ns_weights>>
    ELSE IF WeightKeyError(s_exp, ns_exp)
    THEN /\ SplitAbort("KeyError")
         /\ UNCHANGED <<new_weights, ns_weights>>
    ELSE LET nw == NewWeights(s_exp, ns_exp)
             p  == NsWeights(nw, ns_exp)
             size == Len(peplist_source) * ratio
         IN  /\ new_weights' = nw
             /\ ns_weights' = p
             /\ IF Choices(p, size) = {}
                THEN SplitAbort("ValueError")
                ELSE \E c \in Choices(p, size) :
                        SplitFinish([i \in 1..size |-> peplist_nonsource[c[i]]])

\* lines 291-298: plain mode
SplitPlain ==
    LET k == PlainKeep(Len(peplist_source), Len(peplist_nonsource), ratio)
    IN  /\ UNCHANGED <<new_weights, ns_weights>>
        /\ IF k.err /= "none" THEN SplitAbort(k.err)
           ELSE IF k.all THEN SplitFinish(peplist_nonsource)
           ELSE SplitFinish(TrainTestSplit(peplist_nonsource, k.n, seed).test)

\* lines 239-317
SplitDataset ==
    /\ stage = "split" /\ pc = "start"
    /\ IF same_tpm /\ same_bs
       THEN /\ SplitAbort("AssertionError")
            /\ UNCHANGED <<new_weights, ns_weights>>
       ELSE IF (same_tpm \/ same_bs) /\ ratio /= 0
       THEN SplitResample
       ELSE SplitPlain
    /\ UNCHANGED <<stage, peplist_nonsource, peplist_source, ratio, seed, same_tpm, same_bs, ns_exp, s_exp, notSplit>>

NextSplit == SplitDataset

SpecSplit == InitSplit /\ [][NextSplit]_vars

\* the keys of a list
Keys(lst) == {lst[i] : i \in DOMAIN lst}

NoDuplicates(lst) == \A i, j \in DOMAIN lst : i /= j => lst[i] /= lst[j]

\* C3: after split_dataset the train, validation and test buckets of a class are
\* pairwise disjoint, the source buckets cover every source key, and the
\* nonsource buckets cover the nonsource keys except exactly the dropped ones
C3_BucketsPartition ==
    (stage = "split" /\ pc = "done") =>
        /\ \A i \in 0..1 : \A d, e \in 1..3 :
              d /= e => Keys(dct_pep[<<d, i>>]) \cap Keys(dct_pep[<<e, i>>]) = {}
        /\ \A b \in Buckets : NoDuplicates(dct_pep[b])
        /\ UNION {Keys(dct_pep[<<d, 1>>]) : d \in 1..3} = Keys(peplist_source)
        /\ UNION {Keys(dct_pep[<<d, 0>>]) : d \in 1..3} = Keys(keep)
        /\ Keys(keep) \subseteq Keys(peplist_nonsource)
        /\ SumSeq([d \in 1..3 |-> Len(dct_pep[<<d, 0>>])])
              = Len(peplist_nonsource) - Cardinality(Keys(peplist_nonsource) \ Keys(keep))

\* a split that completed and dropped nonsource keys
C3_Witness ==
    /\ stage = "split" /\ pc = "done"
    /\ Len(keep) < Len(peplist_nonsource)
    /\ \A b \in Buckets : dct_pep[b] /= <<>>

\* C5: in resampling mode each bin's weight is positive-fraction / negative
\* count, zero for a bin without negatives, and a bin with positives but no
\* negatives gets weight zero instead of a failure
C5_ZeroWeightNoFailure ==
    (stage = "split" /\ pc /= "start" /\ s_exp /= <<>> /\ ns_exp /= <<>>) =>
        /\ err /= "KeyError"
        /\ new_weights /= <<>>
        /\ \A k \in DOMAIN bins :
              new_weights[k] =
                  IF bins[k] \in DOMAIN ns_norm(ns_exp) /\ weights(s_exp)[k][1] /= 0
                  THEN <<weights(s_exp)[k][1], weights(s_exp)[k][2] * ns_norm(ns_exp)[bins[k]]>>
                  ELSE <<0, 1>>

\* the position of the bin [lo, hi) that contains a value
TrueBinIx(v) == CHOOSE k \in DOMAIN bins : InBin(v, bins[k])

\* equality of two weights <<numerator, denominator>>
SameWeight(a, b) == a[1] * b[2] = b[1] * a[2]

\* C6: in resampling mode the weight of a negative item is the weight of the
\* half-open bin [lo, hi) that contains its value, also on integer bin edges
C6_ItemWeightOfOwnBin ==
    (stage = "split" /\ ns_weights /= <<>>) =>
        \A i \in DOMAIN ns_exp : SameWeight(ns_weights[i], new_weights[TrueBinIx(ns_exp[i])])

----------------------------------------------------------------------------
(* split_dataset in plain mode on the list sizes alone                     *)

\* bound: the largest source count
MaxPlainSource == 7

\* bound: the largest nonsource count
MaxPlainNonsource == 25

InitPlain ==
    /\ stage = "plain"
    /\ pc = "start"
    /\ err = "none"
    /\ IdleExcept("plain")
    /\ sizes_in \in ((0..MaxPlainSource) \X (0..MaxPlainNonsource) \X {0, 1, 2, 3})
                    \cup {<<100, 300, 3>>}
    /\ sizes_out = <<>>

\* lines 291-317 on sizes: the cap, then the two-stage split of each class
PlainSplitSizes ==
    /\ stage = "plain" /\ pc = "start"
    /\ LET k == PlainKeep(sizes_in[1], sizes_in[2], sizes_in[3])
       IN  IF k.err /= "none"
           THEN err' = k.err /\ pc' = "aborted" /\ UNCHANGED sizes_out
           ELSE IF ~SplitOk(k.n) \/ ~SplitOk(sizes_in[1])
           THEN err' = "ValueError" /\ pc' = "aborted" /\ UNCHANGED sizes_out
           ELSE /\ sizes_out' = [keep |-> k.n, nonsource |-> SplitSizes(k.n),
                                 source |-> SplitSizes(sizes_in[1])]
                /\ err' = "none"
                /\ pc' = "done"
    /\ UNCHANGED <<stage, sizes_in, notPlain>>

NextPlain == PlainSplitSizes

SpecPlain == InitPlain /\ [][NextPlain]_vars

\* 60% / 20% / 20% of n, for the sizes where the percentages are whole numbers
SixtyTwentyTwenty(n, sz) == n % 5 = 0 => sz = <<(3 * n) \div 5, n \div 5, n \div 5>>

\* C4: plain mode keeps exactly min(N, r * P) nonsource keys (all N when ratio
\* is None) and divides each class 60% train / 20% validation / 20% test
C4_PlainCapAndSizes ==
    (stage = "plain" /\ pc = "done") =>
        /\ sizes_out.keep = IF sizes_in[3] = 0 THEN sizes_in[2]
                            ELSE Min(sizes_in[2], sizes_in[3] * sizes_in[1])
        /\ SixtyTwentyTwenty(sizes_out.keep, sizes_out.nonsource)
        /\ SixtyTwentyTwenty(sizes_in[1], sizes_out.source)
        /\ sizes_in = <<100, 300, 3>> =>
              sizes_out = [keep |-> 300, nonsource |-> <<180, 60, 60>>, source |-> <<60, 20, 20>>]

----------------------------------------------------------------------------
(* TrainingDataset.encode_peptides                                         *)
(*                                                                         *)
(* A list of records is held as a list of runs: the run [b, ix, n, seed]   *)
(* stands for the n consecutive elements built from the keys at positions  *)
(* ix+1 .. ix+n of bucket b.  extend() of a chunk result appends its run.  *)

chunk_size == 10000

\* bound: the largest number of chunk units one call may submit
MaxFutures == 12

\* bound: train buckets hold up to this many chunks
MaxChunks == 2

\* 1-based position of bucket (ds, i) in the submission loop
BucketPos(b) == 2 * (b[1] - 1) + b[2] + 1

EncTypes == {"codon", "shuffle", "aa"}

\* random.seed(s); random.randint(10**6, 10**9): a fixed function of s into the range
RandInt(s) == 1000000 + (((s % 99991) * 9973 + 7) % 999000001)

\* iterseed incremented once, outside the loop over the buckets
IterSeedOnce(sd, b) == RandInt(sd) + 1

\* iterseed when bucket b is reached: one increment per (ds, i)
IterSeed(sd, b) == RandInt(sd) + BucketPos(b)

\* the chunk offsets range(0, n, chunk_size)
ChunkOffsets(n) == {ix \in 0..n : ix % chunk_size = 0 /\ ix < n}

ChunkLen(n, ix) == Min(chunk_size, n - ix)

\* the run a worker returns for a chunk unit
\* _encode_codon / _encode_aa ignore the seed; _encode_shuffle seeds from iseed
EncodeChunk(t, b, ix, n, iseed) ==
    [enc |-> t, b |-> b, ix |-> ix, n |-> n,
     seed |-> IF t = "shuffle" THEN RandInt(iseed) ELSE 0]

\* the units submitted for bucket b, as futures[future] = (ds, i, enc_type)
UnitsOf(b, n, tg, sd) ==
    {[b |-> b, enc |-> t, ix |-> ix, n |-> ChunkLen(n, ix), iseed |-> IterSeed(sd, b) + ix] :
        t \in {e \in EncTypes : tg[e]}, ix \in ChunkOffsets(n)}

RECURSIVE MetaRuns(_, _, _)
\* meta_dct[ds][i] after the submission loop: the chunks in offset order
MetaRuns(b, n, ix) ==
    IF ix >= n THEN <<>>
    ELSE <<[enc |-> "meta", b |-> b, ix |-> ix, n |-> ChunkLen(n, ix), seed |-> 0]>>
         \o MetaRuns(b, n, ix + chunk_size)

\* number of elements of a list of runs
RECURSIVE RunsLen(_)
RunsLen(runs) == IF runs = <<>> THEN 0 ELSE Head(runs).n + RunsLen(Tail(runs))

\* the k-th element (1-based) of a list of runs: which key it encodes, how, with which seed
RECURSIVE ElemAt(_, _)
ElemAt(runs, k) ==
    LET r == Head(runs)
    IN  IF k <= r.n
        THEN [enc |-> r.enc, b |-> r.b, key |-> r.ix + k,
              seed |-> IF r.enc = "shuffle" THEN r.seed + k ELSE 0]
        ELSE ElemAt(Tail(runs), k - r.n)

\* class sizes the encoder is started from: the kept keys of one class
\* (5 -> 3/1/1; 16670 -> 10002/3334/3334; 25000 * c -> 15000 * c/5000 * c/5000 * c)
ClassSizes == {5, 16670} \cup {25000 * (c - 1) : c \in 3..MaxChunks}

\* the bucket lengths split_dataset leaves for class sizes <<n0, n1>>
BucketLens(ns) == [b \in Buckets |-> SplitSizes(ns[b[2] + 1])[b[1]]]

NumUnits(lens, tg) ==
    LET per == Cardinality({e \in EncTypes : tg[e]})
    IN  per * SumSeq([p \in 1..6 |->
            LET b == CHOOSE x \in Buckets : BucketPos(x) = p
            IN  Cardinality(ChunkOffsets(lens[b]))])

InitEncode ==
    /\ stage = "encode"
    /\ pc = "start"
    /\ err = "none"
    /\ IdleExcept("encode")
    /\ \E ns \in ClassSizes \X ClassSizes : n_pep = BucketLens(ns)
    /\ toggles \in [EncTypes -> BOOLEAN]
    /\ NumUnits(n_pep, toggles) <= MaxFutures
    /\ base_seed \in {0, 1}
    /\ futures = {}
    /\ yielded = {}
    /\ meta_dct = EmptyBuckets
    /\ enc_dct = EmptyBuckets
    /\ shuff_enc_dct = EmptyBuckets
    /\ aa_enc_dct = EmptyBuckets

\* lines 335-368: reset the four dictionaries and submit every chunk unit
EncodeSubmit ==
    /\ stage = "encode" /\ pc = "start"
    /\ futures' = UNION {UnitsOf(b, n_pep[b], toggles, base_seed) : b \in Buckets}
    /\ meta_dct' = [b \in Buckets |-> MetaRuns(b, n_pep[b], 0)]
    /\ enc_dct' = EmptyBuckets
    /\ shuff_enc_dct' = EmptyBuckets
    /\ aa_enc_dct' = EmptyBuckets
    /\ yielded' = {}
    /\ pc' = "drain"
    /\ UNCHANGED <<stage, err, notEncode, n_pep, toggles, base_seed>>

\* the futures as_completed may produce next: any one not produced yet
as_completed(fs, done) == fs \ done

\* lines 370-378: one iteration of the as_completed loop
EncodeCollect ==
    /\ stage = "encode" /\ pc = "drain"
    /\ \E f \in as_completed(futures, yielded) :
        LET enc_lst == EncodeChunk(f.enc, f.b, f.ix, f.n, f.iseed)
        IN  /\ yielded' = yielded \cup {f}
            /\ enc_dct' = IF f.enc = "codon"
                          THEN [enc_dct EXCEPT ![f.b] = @ \o <<enc_lst>>] ELSE enc_dct
            /\ shuff_enc_dct' = IF f.enc = "shuffle"
                          THEN [shuff_enc_dct EXCEPT ![f.b] = @ \o <<enc_lst>>] ELSE shuff_enc_dct
            /\ aa_enc_dct' = IF f.enc = "aa"
                          THEN [aa_enc_dct EXCEPT ![f.b] = @ \o <<enc_lst>>] ELSE aa_enc_dct
    /\ UNCHANGED <<stage, pc, err, notEncode, n_pep, toggles, base_seed, futures, meta_dct>>

\* line 380: the loop ends when every future was produced
EncodeShutdown ==
    /\ stage = "encode" /\ pc = "drain"
    /\ as_completed(futures, yielded) = {}
    /\ pc' = "done"
    /\ UNCHANGED <<stage, err, notEncode, encVars>>

NextEncode == EncodeSubmit \/ EncodeCollect \/ EncodeShutdown

SpecEncode == InitEncode /\ [][NextEncode]_vars

\* the output dictionary of an encoding type
OutDct(t) == IF t = "codon" THEN enc_dct ELSE IF t = "shuffle" THEN shuff_enc_dct ELSE aa_enc_dct

\* what the k-th key of bucket b encodes to under encoding t
ExpectedElem(t, b, k) ==
    LET ix == ((k - 1) \div chunk_size) * chunk_size
    IN  [enc |-> t, b |-> b, key |-> k,
         seed |-> IF t = "shuffle"
                  THEN RandInt(IterSeed(base_seed, b) + ix) + (k - ix) ELSE 0]

\* C1: after encode_peptides, for every bucket and enabled encoding, the k-th
\* output element is the encoding of the k-th key of the bucket, whatever the
\* completion order of the chunk futures
C1_OrderPreserved ==
    (stage = "encode" /\ pc = "done") =>
        \A b \in Buckets : \A t \in EncTypes :
            toggles[t] =>
                /\ RunsLen(OutDct(t)[b]) = n_pep[b]
                /\ \A k \in 1..n_pep[b] : ElemAt(OutDct(t)[b], k) = ExpectedElem(t, b, k)

\* the chunk units submitted to _encode_shuffle
ShuffleUnits == {u \in futures : u.enc = "shuffle"}

\* C13: the seed passed to _encode_shuffle for a (split, class, chunk) unit is
\* the base seed's draw plus the bucket's position plus the chunk offset, and
\* two distinct units never get the same seed
C13_ShuffleSeedsDistinct ==
    \A u \in ShuffleUnits :
        /\ u.iseed = RandInt(base_seed) + BucketPos(u.b) + u.ix
        /\ \A v \in ShuffleUnits : (<<u.b, u.ix>> /= <<v.b, v.ix>>) => u.iseed /= v.iseed

\* shuffle units are submitted for two chunks of one bucket and for two buckets
C13_Witness ==
    /\ \E u, v \in ShuffleUnits : u.b = v.b /\ u.ix /= v.ix
    /\ \E u, v \in ShuffleUnits : u.b /= v.b /\ u.ix = v.ix

----------------------------------------------------------------------------
(* RegressionDataset._organize_data                                        *)

\* bound: the largest number of replicate scores of an entry
MaxReplicates == 2

\* bound: the largest number of expression values of a key
MaxExpressions == 2

\* self.ann_method (line 99) and the key of its shuffled scores (line 487)
ann_method == "Adam"

ann_method_Shuffle == "Adam_Shuffle"

\* the keys (pep, i) self.peptides[sns] can hold, in dict iteration order
OrganizeKeys == << << <<"P", 0>>, <<"P", 1>> >>, << <<"Q", 0>>, <<"Q", 1>> >> >>

\* the shape of an entry: replicate scores, shuffled replicate scores, expression values
OrgShapes ==
    {[rep |-> r, shuf |-> r, nexp |-> e] : r \in 1..MaxReplicates, e \in 1..MaxExpressions}
        \cup {[rep |-> 1, shuf |-> 0, nexp |-> 1]}

\* the key is not in the dict
NoEntry == [rep |-> 0, shuf |-> 0, nexp |-> 0]

\* lines 215-219 (step == 'evaluateDS'): the score lists of the annotation method
ScoreEntry(k, shape) ==
    [m \in {ann_method, ann_method_Shuffle} |->
        IF m = ann_method THEN [r \in 1..shape.rep |-> <<"score", k, r>>]
        ELSE [r \in 1..shape.shuf |-> <<"shuffled", k, r>>]]

\* lines 205-207: the expression values and transcripts of a key
ExprEntry(shape) ==
    LET tr == [j \in 1..shape.nexp |-> IF j % 2 = 1 THEN "t1" ELSE "t2"]
    IN  <<[j \in 1..shape.nexp |-> tpm_dct[tr[j]]], tr>>

InitOrganize ==
    /\ stage = "organize"
    /\ pc = "loaded"
    /\ err = "none"
    /\ IdleExcept("organize")
    /\ pepfiles = <<>> /\ shards = <<>> /\ peptr = <<>> /\ source_transcripts = {}
    /\ opt = NoOptions
    /\ options_args = <<>>
    /\ attrs = {"peptides", "pepexpr", "pepbs"}
    /\ \E ch \in [Range(OrganizeKeys[1]) \cup Range(OrganizeKeys[2]) -> OrgShapes \cup {NoEntry}] :
        LET present(sns) == {k \in Range(OrganizeKeys[sns + 1]) : ch[k] /= NoEntry}
        IN  /\ peptides = <<[k \in present(0) |-> ScoreEntry(k, ch[k])],
                            [k \in present(1) |-> ScoreEntry(k, ch[k])]>>
            /\ pepexpr = [k \in present(0) \cup present(1) |-> ExprEntry(ch[k])]
            /\ pepbs = [p \in {k[1] : k \in present(0) \cup present(1)} |-> <<"raw", 1>>]
    /\ df_dictionnaries = <<>>

\* line 482: the keys of self.peptides[sns] in iteration order
OrgKeyList(sns) == SelectSeq(OrganizeKeys[sns + 1], LAMBDA k : k \in DOMAIN peptides[sns + 1])

RECURSIVE OrgRows(_)
\* lines 482-488: one row per key and expression value
OrgRows(keys) ==
    IF keys = <<>> THEN <<>>
    ELSE [j \in 1..Len(pepexpr[Head(keys)][1]) |-> [key |-> Head(keys), e |-> pepexpr[Head(keys)][1][j]]]
            \o OrgRows(Tail(keys))

\* lines 492-498: the number of replicate columns collected under a score key
NumCols(sns, m) ==
    LET rows == OrgRows(OrgKeyList(sns))
        lens == {Len(peptides[sns + 1][rows[i].key][m]) : i \in DOMAIN rows}
    IN  IF lens = {} THEN 0 ELSE CHOOSE n \in lens : \A o \in lens : o <= n

\* lines 492-498: replicate column r holds the r-th score of every row that has one
ScoreCol(sns, m, r) ==
    LET rows == OrgRows(OrgKeyList(sns))
        sel == SelectSeq(rows, LAMBDA w : Len(peptides[sns + 1][w.key][m]) >= r)
    IN  [i \in 1..Len(sel) |-> peptides[sns + 1][sel[i].key][m][r]]

\* line 500
ReplicatesAgree(sns) == NumCols(sns, ann_method) = NumCols(sns, ann_method_Shuffle)

\* lines 474-505: df_dct of class sns when its loop iteration ends; every column is a
\* list of n_replicates lists
DfDct(sns) ==
    LET rows == OrgRows(OrgKeyList(sns))
        n_replicates == NumCols(sns, ann_method)
    IN  [Peptide |-> [r \in 1..n_replicates |-> [i \in DOMAIN rows |-> rows[i].key[1]]],
         BS |-> [r \in 1..n_replicates |-> [i \in DOMAIN rows |-> pepbs[rows[i].key[1]]]],
         TPM |-> [r \in 1..n_replicates |-> [i \in DOMAIN rows |-> <<"log10", rows[i].e>>]],
         CAMAP |-> [r \in 1..n_replicates |-> ScoreCol(sns, ann_method, r)],
         CAMAPShuff |-> [r \in 1..NumCols(sns, ann_method_Shuffle) |->
                            ScoreCol(sns, ann_method_Shuffle, r)]]

\* lines 507-509: the per-replicate tables of class sns
SubDcts(sns) ==
    [r \in 1..NumCols(sns, ann_method) |-> [c \in DOMAIN DfDct(sns) |-> DfDct(sns)[c][r]]]

\* lines 511-521: the class without tables gets, per table of the other class, the
\* df_dct left by the last loop iteration (sns = 1)
Aligned(l0, l1) ==
    IF Len(l0) = Len(l1) THEN <<l0, l1>>
    ELSE IF Len(l0) = 0 THEN <<[r \in 1..Len(l1) |-> DfDct(1)], l1>>
    ELSE <<l0, [r \in 1..Len(l0) |-> DfDct(1)]>>

\* lines 468-524
OrganizeData ==
    /\ stage = "organize" /\ pc = "loaded"
    /\ LET l0 == SubDcts(0)
           l1 == SubDcts(1)
           failed == \/ ~ReplicatesAgree(0)
                     \/ ~ReplicatesAgree(1)
                     \/ Len(l0) /= Len(l1) /\ Len(l0) > 0 /\ Len(l1) > 0
       IN  IF failed
           THEN /\ err' = "AssertionError"
                /\ pc' = "aborted"
                /\ UNCHANGED <<df_dictionnaries, attrs>>
           ELSE /\ df_dictionnaries' = Aligned(l0, l1)
                /\ attrs' = attrs \cup {"df_dictionnaries"}
                /\ pc' = "organized"
                /\ err' = "none"
    /\ UNCHANGED <<stage, pepfiles, shards, opt, options_args, peptides, peptr, pepexpr, pepbs,
                   source_transcripts, notOrganize>>

NextOrganize == OrganizeData

SpecOrganize == InitOrganize /\ [][NextOrganize]_vars

\* the number of rows of the table pandas builds from a column dict
RowCount(t) == Len(t.Peptide)

\* C7: after _organize_data both class lists hold the same number of
\* per-replicate tables, and when exactly one class has no peptides every
\* table synthesized for it has the columns of the other class's table of the
\* same replicate and zero rows
C7_EmptyClassPlaceholder ==
    (stage = "organize" /\ pc = "organized") =>
        /\ Len(df_dictionnaries[1]) = Len(df_dictionnaries[2])
        /\ \A e \in {1, 2} :
            (DOMAIN peptides[e] = {} /\ DOMAIN peptides[3 - e] /= {}) =>
                \A r \in DOMAIN df_dictionnaries[e] :
                    /\ DOMAIN df_dictionnaries[e][r] = DOMAIN df_dictionnaries[3 - e][r]
                    /\ RowCount(df_dictionnaries[e][r]) = 0

----------------------------------------------------------------------------
(* RegressionDataset._split_and_normalize_df                               *)
(*                                                                         *)
(* The table is represented by the (Peptide, Class) index of its rows; the *)
(* scaling of lines 616-629 rewrites column values and keeps the rows.     *)

\* bound: the largest number of peptide ids of the table
MaxIds == 6

\* bound: the largest number of distinct ids of a pre-assigned list
MaxListLen == 3

\* the class of a peptide id: True for source (line 553), False for nonsource (line 552)
ClassOf(i) == i % 2 = 0

\* lines 550-554: the table of ids 1..n; the first id has two rows
TableOf(n) ==
    IF n = 0 THEN <<>>
    ELSE <<[Peptide |-> 1, Class |-> ClassOf(1)]>> \o
         [i \in 1..n |-> [Peptide |-> i, Class |-> ClassOf(i)]]

RECURSIVE AscList(_)
\* the elements of a set of integers in ascending order
AscList(S) ==
    IF S = {} THEN <<>>
    ELSE LET m == CHOOSE x \in S : \A y \in S : x <= y
         IN  <<m>> \o AscList(S \ {m})

\* the pre-assigned lists callers pass: up to MaxListLen distinct ids, present in
\* the table or not, and lists that name an id twice
ListInputs ==
    {AscList(S) : S \in {T \in SUBSET (1..MaxIds) : Cardinality(T) <= MaxListLen}}
        \cup {<<i, i>> : i \in 1..MaxIds}

InitNormalize ==
    /\ stage = "normalize"
    /\ pc = "ready"
    /\ err = "none"
    /\ IdleExcept("normalize")
    /\ df \in {TableOf(n) : n \in 0..MaxIds}
    /\ df_seed \in {1, 2}
    /\ ix_train \in ListInputs
    /\ ix_test \in ListInputs
    /\ datasets = <<>>

RECURSIVE DropDuplicates(_)
\* line 567: Index.drop_duplicates keeps the first occurrence of every entry
DropDuplicates(rows) ==
    IF rows = <<>> THEN <<>>
    ELSE LET init == DropDuplicates(SubSeq(rows, 1, Len(rows) - 1))
             last == rows[Len(rows)]
         IN  IF last \in Range(init) THEN init ELSE Append(init, last)

\* lines 570-574: list(set(lst)) filtered to the ids of the table; the iteration
\* order of the set is taken as ascending
Resolve(lst, table) ==
    AscList({x \in Range(lst) : \E i \in DOMAIN table : table[i].Peptide = x})

\* line 578: split_ratio = 0.3/0.7 is the double 0.4285714285714286.  The
\* comparisons of lines 579 and 581 agree with the exact 3a ? 7t for all list
\* lengths up to 12.
RatioAbove(a, t) == 3 * a > 7 * t

RatioBelow(a, t) == 3 * a < 7 * t

\* line 580: int(t / split_ratio) in double arithmetic, for t <= 12; the quotient
\* of t = 3, 6, 12 rounds below the exact 7t/3
IntDivRatio(t) == (7 * t) \div 3 - (IF t \in {3, 6, 12} THEN 1 ELSE 0)

\* lines 577-580
nremove(a, t) == IF RatioAbove(a, t) THEN a - IntDivRatio(t) ELSE 0

\* lines 576, 581-582: int((t - a*split_ratio) / (1 + split_ratio)) in double
\* arithmetic, for a, t <= 12; the listed pairs round below the exact (7t - 3a)/10
nswitch(a, t) ==
    IF RatioBelow(a, t) /\ ~RatioAbove(a, t)
    THEN (7 * t - 3 * a) \div 10
            - (IF <<a, t>> \in {<<2, 8>>, <<5, 5>>, <<6, 4>>, <<9, 11>>, <<10, 10>>, <<12, 8>>}
               THEN 1 ELSE 0)
    ELSE 0

\* lines 585-588: random.seed = seed rebinds the module attribute and seeds nothing,
\* so random.sample(range(n), k) draws any k positions (1-based here)
Sample(n, k) == {S \in SUBSET (1..n) : Cardinality(S) = k}

\* lines 593-594: pop the positions of S, highest first
PopAll(lst, S) ==
    LET left == AscList((1..Len(lst)) \ S)
    IN  [i \in 1..Len(left) |-> lst[left[i]]]

\* lines 595-596: the popped elements in the order they are appended
Popped(lst, S) ==
    LET ix == AscList(S)
    IN  [i \in 1..Len(ix) |-> lst[ix[Len(ix) + 1 - i]]]

\* line 598: MultiIndex.drop(labels, level='Peptide')
DropLevel(ix, labels) == SelectSeq(ix, LAMBDA e : e.Peptide \notin Range(labels))

\* line 603: n_test = ceil(0.3 * n); the double product gives the exact ceiling
\* for every n below 200
NTest(n) == CeilDiv(3 * n, 10)

\* line 603: the conditions under which the stratified train_test_split does not
\* raise ValueError
StratifyOk(ix) ==
    LET n == Len(ix)
        classes == {ix[i].Class : i \in DOMAIN ix}
        members(c) == Cardinality({i \in DOMAIN ix : ix[i].Class = c})
    IN  /\ n - NTest(n) >= 1
        /\ \A c \in classes : members(c) >= 2
        /\ n - NTest(n) >= Cardinality(classes)
        /\ NTest(n) >= Cardinality(classes)

\* lines 567-609 for the drawn positions rem and sw: the ids the train and the
\* test table are built from
SplitOutcome(rem, sw) ==
    LET ix == DropDuplicates(df)
        tr0 == Resolve(ix_train, df)
        te0 == Resolve(ix_test, df)
        tr1 == PopAll(tr0, rem) \o Popped(te0, sw)
        te1 == PopAll(te0, sw)
        rest == DropLevel(ix, tr1 \o te1)
        peps == [i \in DOMAIN rest |-> rest[i].Peptide]
        split == TrainTestSplit(peps, NTest(Len(peps)), df_seed)
    IN  IF StratifyOk(rest)
        THEN [err |-> "none", train |-> tr1 \o split.train, test |-> te1 \o split.test]
        ELSE [err |-> "ValueError", train |-> <<>>, test |-> <<>>]

\* the calls compared: the same arguments are passed twice
NumCalls == 2

\* lines 563-639: one call of _split_and_normalize_df(df, seed, ix_train, ix_test)
SplitAndNormalizeDf ==
    /\ stage = "normalize" /\ Len(datasets) < NumCalls
    /\ LET a == Len(Resolve(ix_train, df))
           t == Len(Resolve(ix_test, df))
       IN  \E rem \in Sample(a, nremove(a, t)) : \E sw \in Sample(t, nswitch(a, t)) :
               datasets' = Append(datasets, SplitOutcome(rem, sw))
    /\ pc' = IF Len(datasets) + 1 = NumCalls THEN "done" ELSE "ready"
    /\ err' = datasets'[Len(datasets')].err
    /\ UNCHANGED <<stage, df, df_seed, ix_train, ix_test, notNormalize>>

NextNormalize == SplitAndNormalizeDf

SpecNormalize == InitNormalize /\ [][NextNormalize]_vars

\* the distinct peptide ids of the table
DistinctIds == {df[i].Peptide : i \in DOMAIN df}

\* C8: for any pre-assigned lists, the resolved train ids plus the resolved test
\* ids of a completed call number the distinct peptide ids of the table
C8_EveryIdCountedOnce ==
    \A c \in DOMAIN datasets :
        datasets[c].err = "none" =>
            Len(datasets[c].train) + Len(datasets[c].test) = Cardinality(DistinctIds)

\* C9: two completed calls with the same table, seed and pre-assigned lists
\* resolve the same train id set and the same test id set
C9_SameSeedSameSplit ==
    (Len(datasets) = 2 /\ datasets[1].err = "none" /\ datasets[2].err = "none") =>
        /\ Range(datasets[1].train) = Range(datasets[2].train)
        /\ Range(datasets[1].test) = Range(datasets[2].test)

\* C15: for any pre-assigned lists, lists that share ids included, no peptide
\* id is used to build both the train table and the test table of a completed
\* call
C15_TrainTestDisjoint ==
    \A c \in DOMAIN datasets :
        datasets[c].err = "none" =>
            Range(datasets[c].train) \cap Range(datasets[c].test) = {}

----------------------------------------------------------------------------
(* Dataset.clear_unused and RegressionDataset.clear_unused                 *)
(*                                                                         *)
(* attrs is the set of attribute names the object has; the tables          *)
(* themselves play no part in the deletion and stay empty here.            *)

\* the attributes each class deletes (lines 230-232, 645)
Cleared(k) ==
    IF k = "RegressionDataset" THEN {"pepbs", "pepexpr", "peptides", "df_dictionnaries"}
    ELSE {"pepbs", "pepexpr", "peptides"}

\* attributes clear_unused does not touch
OtherAttrs == {"var", "source_transcripts", "peptides_train"}

\* the object may lack any of its attributes: load_peptides sets pepexpr, pepbs
\* and peptides together (lines 154-157), a caller can delete each of them, and
\* the handlers of lines 233 and 646 provide for missing ones
InitClear ==
    /\ stage = "clear"
    /\ pc = "ready"
    /\ err = "none"
    /\ IdleExcept("clear")
    /\ klass \in {"Dataset", "RegressionDataset"}
    /\ attrs \in SUBSET (Cleared(klass) \cup OtherAttrs)
    /\ pepfiles = <<>> /\ shards = <<>> /\ opt = NoOptions /\ options_args = <<>>
    /\ peptides = <<>> /\ peptr = <<>> /\ pepexpr = <<>> /\ pepbs = <<>>
    /\ source_transcripts = {}

\* lines 229-234: the del statements run in order, the first missing attribute
\* raises AttributeError, which ends the try block
DatasetClearUnused(a) ==
    IF "pepbs" \notin a THEN a
    ELSE IF "pepexpr" \notin a THEN a \ {"pepbs"}
    ELSE IF "peptides" \notin a THEN a \ {"pepbs", "pepexpr"}
    ELSE a \ {"pepbs", "pepexpr", "peptides"}

\* lines 642-647: super().clear_unused(), then del self.df_dictionnaries in its own try
RegressionClearUnused(a) == DatasetClearUnused(a) \ {"df_dictionnaries"}

\* one call of clear_unused; both AttributeError handlers swallow the exception
ClearUnused ==
    /\ stage = "clear" /\ pc = "ready"
    /\ attrs' = IF klass = "RegressionDataset" THEN RegressionClearUnused(attrs)
                ELSE DatasetClearUnused(attrs)
    /\ pc' = "cleared"
    /\ err' = "none"
    /\ UNCHANGED <<stage, klass, pepfiles, shards, opt, options_args, peptides, peptr, pepexpr,
                   pepbs, source_transcripts, notClear>>

NextClear == ClearUnused

SpecClear == InitClear /\ [][NextClear]_vars

\* C14: after clear_unused returns, whatever subset of pepbs, pepexpr, peptides
\* (and df_dictionnaries for RegressionDataset) existed, none of them remains,
\* and the call did not raise
C14_NothingLeftAfterClear ==
    (stage = "clear" /\ pc = "cleared") =>
        (attrs \cap Cleared(klass) = {} /\ err = "none")

=============================================================================
